---- MODULE Spec2Model ----
(***************************************************************************)
(* Model of sprite-sheet-tools: sprite_sheet_generator.py (stitch_images   *)
(* and the generate command) and sprite_sheet_splitter.py                  *)
(* (split_sprite_sheet, process_arguments and the split command).          *)
(*                                                                         *)
(* Python tuples are 1-indexed here: size[1] is Python's size[0] (width),  *)
(* size[2] is Python's size[1] (height).                                   *)
(***************************************************************************)
EXTENDS Integers, Sequences, FiniteSets, TLC

\* ---------------------------------------------------------------- bounds
MaxSprites == 2    \* longest sprite list handed to stitch_images
MaxDim == 2        \* largest sprite width / height
MaxGrid == 2       \* largest number of grid rows / columns
MaxPad == 1        \* largest padding
MaxSheet == 5      \* largest width / height of a sheet handed to split directly
MaxFiles == 2      \* most files the generate command discovers in one run
MaxDepth == 2      \* deepest nesting of directories below an input path
MaxInputs == 2     \* most paths given to --input
MaxPixels == 4     \* most pixels of an image handed to image_is_blank
MaxName == 4       \* longest file name whose label is derived
MaxSaved == 11     \* most sprites handed to the loop that saves them

VARIABLES
    op,             \* which entry point this behaviour exercises
    pc,             \* position inside that entry point
    images,         \* stitch_images: the list of sprites
    grid_size,      \* stitch_images: (rows, cols)
    padding,        \* stitch_images: (horizontal, vertical)
    stitched,       \* stitch_images: what the call produced
    image,          \* split_sprite_sheet: the sheet
    size,           \* split_sprite_sheet: (sprite_width, sprite_height)
    sprite_padding, \* split_sprite_sheet: (padding_x, padding_y)
    split_images,   \* split_sprite_sheet: the returned list
    labels,         \* generate: the list of labels, parallel to images
    depth,          \* generate: number of directories process_path is inside
    inputs_done,    \* generate: number of paths of args.input already processed
    argv,           \* split: the namespace as parsed from the command line
    args,           \* split: the namespace as process_arguments leaves it
    files,          \* split: the files process_arguments looks at
    error_message,  \* split: what process_arguments returned
    is_blank,       \* split: what image_is_blank returned
    disk,           \* the files written so far
    log,            \* the lines printed so far
    sources,        \* history: the file name behind each entry of images
    decode_failed   \* history: some discovered file failed to decode

geometry_vars == <<images, grid_size, padding, stitched,
                   image, size, sprite_padding, split_images>>

generate_vars == <<labels, depth, inputs_done, sources, decode_failed>>

split_vars == <<argv, args, files, error_message, is_blank>>

vars == <<op, pc, geometry_vars, generate_vars, split_vars, disk, log>>

\* ---------------------------------------------------------------- images
\* An RGBA pixel: c stands for the colour triple, a for the alpha sample.
Transparent == [c |-> 0, a |-> 0]

Coords(w, h) == (0 .. w - 1) \X (0 .. h - 1)

\* PIL Image.new('RGBA', (w, h), (0,0,0,0))
NewImage(w, h) == [size |-> <<w, h>>, px |-> [p \in Coords(w, h) |-> Transparent]]

\* A loaded image whose pixels are pairwise distinct and opaque; id tells
\* images apart.
Sprite(id, w, h) ==
    [size |-> <<w, h>>,
     px |-> [p \in Coords(w, h) |-> [c |-> 100 * id + 10 * p[2] + p[1] + 1, a |-> 255]]]

NoImage == NewImage(0, 0)

\* PIL Image.crop(box): the result always has the size of the box; the part
\* of the box outside the image reads as (0,0,0,0).
Crop(img, left, top, right, bottom) ==
    [size |-> <<right - left, bottom - top>>,
     px |-> [p \in Coords(right - left, bottom - top) |->
                IF <<left + p[1], top + p[2]>> \in DOMAIN img.px
                THEN img.px[<<left + p[1], top + p[2]>>]
                ELSE Transparent]]

\* PIL Image.paste(src, (x, y)) without a mask: the pixels of src replace
\* those of the canvas, clipped to the canvas.
Paste(canvas, src, x, y) ==
    [canvas EXCEPT !.px =
        [p \in DOMAIN canvas.px |->
            IF <<p[1] - x, p[2] - y>> \in DOMAIN src.px
            THEN src.px[<<p[1] - x, p[2] - y>>]
            ELSE canvas.px[p]]]

\* Python max() over a non-empty sequence of integers
Max(S) == CHOOSE m \in S : \A n \in S : n <= m

\* Python range(0, stop, step) as a list, step > 0
Range(stop, step) ==
    [k \in 1 .. (IF stop <= 0 THEN 0 ELSE ((stop - 1) \div step) + 1) |-> (k - 1) * step]

\* ------------------------------------------------- sprite_sheet_generator
NoMetadata ==
    [sprite_size |-> [width |-> 0, height |-> 0],
     sprite_padding |-> [horizontal |-> 0, vertical |-> 0],
     grid_size |-> [rows |-> 0, cols |-> 0],
     sheet_size |-> [width |-> 0, height |-> 0]]

\* the offset at which the loop of stitch_images pastes images[idx + 1]
\* (idx is Python's 0-based index)
\* mutant: the horizontal padding is left out of the stride
x_offset_unpadded(idx, cols, max_width, pad) == (idx % cols) * max_width

x_offset(idx, cols, max_width, pad) == (idx % cols) * (max_width + pad[1])

y_offset(idx, cols, max_height, pad) == (idx \div cols) * (max_height + pad[2])

\* the paste loop of stitch_images, from index idx on
RECURSIVE paste_loop(_, _, _, _, _, _, _)
paste_loop(canvas, imgs, idx, cols, max_width, max_height, pad) ==
    IF idx >= Len(imgs) THEN canvas
    ELSE paste_loop(Paste(canvas, imgs[idx + 1],
                          x_offset(idx, cols, max_width, pad),
                          y_offset(idx, cols, max_height, pad)),
                    imgs, idx + 1, cols, max_width, max_height, pad)

\* mutant: padding counted after every column, the last one included
total_width_padded_border(cols, max_width, pad) == cols * (max_width + pad[1])

total_width(cols, max_width, pad) == cols * max_width + (cols - 1) * pad[1]

total_height(rows, max_height, pad) == rows * max_height + (rows - 1) * pad[2]

\* lines 66-110 of stitch_images: the sheet and the metadata, once the
\* number of images is accepted
stitch_accepted(imgs, grid, pad) ==
    LET rows == grid[1]
        cols == grid[2]
        max_width == Max({imgs[i].size[1] : i \in 1 .. Len(imgs)})
        max_height == Max({imgs[i].size[2] : i \in 1 .. Len(imgs)})
        stitched_image ==
            paste_loop(NewImage(total_width(cols, max_width, pad),
                                total_height(rows, max_height, pad)),
                       imgs, 0, cols, max_width, max_height, pad)
    IN  [err |-> "none",
         sheet |-> stitched_image,
         metadata |->
            [sprite_size |-> [width |-> max_width, height |-> max_height],
             sprite_padding |-> [horizontal |-> pad[1], vertical |-> pad[2]],
             grid_size |-> [rows |-> rows, cols |-> cols],
             sheet_size |-> [width |-> stitched_image.size[1],
                             height |-> stitched_image.size[2]]]]

\* mutant: the number of images is not compared with the grid
stitch_images_unchecked(imgs, grid, pad) ==
    IF Len(imgs) = 0
    THEN [err |-> "ValueError:unpack", sheet |-> NoImage, metadata |-> NoMetadata]
    ELSE stitch_accepted(imgs, grid, pad)

\* stitch_images(images, grid_size, padding): err is "none" when the call
\* returns (sheet, metadata), and names the ValueError otherwise: unpacking
\* zip() of no image (line 57), or more images than cells (lines 63-64).
stitch_images(imgs, grid, pad) ==
    IF Len(imgs) = 0
    THEN [err |-> "ValueError:unpack", sheet |-> NoImage, metadata |-> NoMetadata]
    ELSE IF Len(imgs) > grid[1] * grid[2]
    THEN [err |-> "ValueError:capacity", sheet |-> NoImage, metadata |-> NoMetadata]
    ELSE stitch_accepted(imgs, grid, pad)

\* ------------------------------------------------- sprite_sheet_splitter
get_image_section(img, position, sz) ==
    LET left == position[1]
        top == position[2]
    IN  Crop(img, left, top, left + sz[1], top + sz[2])

\* mutant: the stop of the outer range lacks its + 1
outer_range_short(img, sz, pad) == Range(img.size[1] - sz[1], sz[1] + pad[1])

\* the values the outer loop variable (named y) of split_sprite_sheet takes
outer_range(img, sz, pad) == Range(img.size[1] - sz[1] + 1, sz[1] + pad[1])

\* mutant: the inner range runs over the whole height of the sheet
inner_range_whole(img, sz, pad) == Range(img.size[2], sz[2] + pad[2])

\* the values the inner loop variable (named x) of split_sprite_sheet takes
inner_range(img, sz, pad) == Range(img.size[2] - sz[2] + 1, sz[2] + pad[2])

\* the (x, y) position handed to get_image_section for each appended sprite,
\* in the order the nested loops append them
split_positions(img, sz, pad) ==
    LET ys == outer_range(img, sz, pad)
        xs == inner_range(img, sz, pad)
    IN  [k \in 1 .. Len(ys) * Len(xs) |->
            <<xs[((k - 1) % Len(xs)) + 1], ys[((k - 1) \div Len(xs)) + 1]>>]

split_sprite_sheet(img, sz, pad) ==
    LET pos == split_positions(img, sz, pad)
    IN  [k \in 1 .. Len(pos) |-> get_image_section(img, pos[k], sz)]

\* ---------------------------------------------------------------- strings
\* A Python str is the sequence of its characters. None stands for Python's
\* None where a str may stand; its one element is no character.
None == <<"None">>

Digit == {"0", "1", "2", "3", "4", "5", "6", "7", "8", "9"}

\* the characters matched by [\s_-] (of the whitespace only the blank occurs)
SepChar == {" ", "_", "-"}

\* s without its longest prefix of characters of C
RECURSIVE DropWhile(_, _)
DropWhile(s, C) ==
    IF s # <<>> /\ Head(s) \in C THEN DropWhile(Tail(s), C) ELSE s

\* mutant: only the digits are removed
re_sub_digits_only(s) ==
    IF s # <<>> /\ Head(s) \in Digit THEN DropWhile(s, Digit) ELSE s

\* re.sub(r'^\d+[\s_-]*', '', s)
re_sub(s) ==
    IF s # <<>> /\ Head(s) \in Digit THEN DropWhile(DropWhile(s, Digit), SepChar) ELSE s

\* str.rfind('.') as a 1-based index, 0 when there is no dot
rfind_dot(s) ==
    IF \E i \in 1 .. Len(s) : s[i] = "."
    THEN Max({i \in 1 .. Len(s) : s[i] = "."})
    ELSE 0

\* pathlib.Path(name).stem
stem(name) ==
    LET i == rfind_dot(name)
    IN  IF 1 < i /\ i < Len(name) THEN SubSeq(name, 1, i - 1) ELSE name

\* lines 152-155 of process_path: the label of a file name
processed_name(name) ==
    LET n == re_sub(stem(name))
    IN  IF Len(n) = 0 THEN None ELSE n

\* ------------------------------------- split command (process_arguments)
\* Python's None where a tuple may stand
NoneT == <<>>

\* str.strip() (of the whitespace only the blank occurs)
RECURSIVE rstrip(_)
rstrip(s) == IF s # <<>> /\ s[Len(s)] = " " THEN rstrip(SubSeq(s, 1, Len(s) - 1)) ELSE s

strip(s) == rstrip(DropWhile(s, {" "}))

\* mutant: the descriptor's sprite size replaces an explicit one
metadata_sprite_size_always(explicit, data) ==
    <<data.sprite_size.width, data.sprite_size.height>>

\* lines 145-147 of process_arguments: the sprite size once a descriptor was
\* loaded
metadata_sprite_size(explicit, data) ==
    IF explicit = NoneT
    THEN <<data.sprite_size.width, data.sprite_size.height>>
    ELSE explicit

\* process_arguments(args) with the files it looks at: f.label_file is the
\* list of lines of the file at args.label_path (<<>> when there is no such
\* file, else a 1-tuple), f.metadata the content of <stem>-metadata.json
\* likewise, f.input_exists tells whether args.input exists. Returns the
\* error message ("None" for None) and the namespace as it leaves it.
process_arguments(a, f) ==
    IF a.label_path # "None" /\ f.label_file = <<>>
    THEN [error |-> "Error: label file does not exist!", args |-> a]
    ELSE
    LET a1 == [a EXCEPT !.labels =
                  IF a.label_path # "None"
                  THEN [i \in 1 .. Len(f.label_file[1]) |-> strip(f.label_file[1][i])]
                  ELSE <<>>]
        data == f.metadata[1]
        a2 == IF ~a.ignore_metadata /\ f.metadata # <<>>
              THEN [a1 EXCEPT
                      !.sprite_size = metadata_sprite_size(a1.sprite_size, data),
                      !.sprite_padding =
                          IF a1.sprite_padding = NoneT
                          THEN <<data.sprite_padding.horizontal, data.sprite_padding.vertical>>
                          ELSE @,
                      !.labels =
                          IF a1.label_path = "None" /\ data.labels # <<>>
                          THEN data.labels[1]
                          ELSE @]
              ELSE a1
        a3 == [a2 EXCEPT !.sprite_padding = IF @ = NoneT THEN <<0, 0>> ELSE @]
    IN  IF a2.sprite_size = NoneT
        THEN [error |-> "Error: sprite size was not provided.", args |-> a2]
        ELSE IF ~f.input_exists
        THEN [error |-> "Error: sprite sheet file does not exist!", args |-> a3]
        ELSE [error |-> "None", args |-> a3]

\* ------------------------------------------------- split command (main)
\* get_args of sprite_sheet_splitter.py: add_argument is given type=bool
\* together with action="store_true" (lines 56-59 and 61-64); argparse
\* rejects the pair with a TypeError while the parser is built, whatever
\* the command line holds, so get_args never returns a namespace.
get_args == [raised |-> "TypeError"]

\* image_is_blank(image)
\* PIL Image.getchannel("A"): the band of alpha samples
getchannel_A(img) == [size |-> img.size, px |-> [p \in DOMAIN img.px |-> img.px[p].a]]

\* PIL Image.getdata() as a list: the samples of a band, row by row
getdata(band) ==
    [k \in 1 .. band.size[1] * band.size[2] |->
        band.px[<<(k - 1) % band.size[1], (k - 1) \div band.size[1]>>]]

\* mutant: only the first sample is looked at
image_is_blank_first(img) ==
    LET alpha_values == getdata(getchannel_A(img))
    IN  alpha_values[1] = 0

image_is_blank(img) ==
    LET alpha_values == getdata(getchannel_A(img))
    IN  \A k \in 1 .. Len(alpha_values) : alpha_values[k] = 0

DigitChar(d) ==
    CASE d = 0 -> "0" [] d = 1 -> "1" [] d = 2 -> "2" [] d = 3 -> "3" [] d = 4 -> "4"
      [] d = 5 -> "5" [] d = 6 -> "6" [] d = 7 -> "7" [] d = 8 -> "8" [] d = 9 -> "9"

\* Python str(n) of a natural number
RECURSIVE str(_)
str(n) == IF n < 10 THEN <<DigitChar(n)>> ELSE str(n \div 10) \o <<DigitChar(n % 10)>>

\* lines 214-218 of main: the file name of the sprite at index i (0-based)
file_name(i, lbls, label_separator) ==
    IF Len(lbls) > i /\ lbls[i + 1] # None /\ Len(lbls[i + 1]) > 0
    THEN str(i + 1) \o label_separator \o lbls[i + 1]
    ELSE str(i + 1)

\* sprite.save(save_path): the file of that name is created or replaced
save(dir, name, content) ==
    {f \in dir : f.name # name} \cup {[name |-> name, content |-> content]}

\* lines 210-225 of main: the loop over the sprites, from index i on
RECURSIVE save_loop(_, _, _, _, _, _)
save_loop(dir, sprites, i, lbls, label_separator, disinclude_blank_sprites) ==
    IF i >= Len(sprites) THEN dir
    ELSE IF disinclude_blank_sprites /\ image_is_blank(sprites[i + 1])
    THEN save_loop(dir, sprites, i + 1, lbls, label_separator, disinclude_blank_sprites)
    ELSE save_loop(save(dir,
                        file_name(i, lbls, label_separator) \o <<".", "p", "n", "g">>,
                        sprites[i + 1]),
                   sprites, i + 1, lbls, label_separator, disinclude_blank_sprites)

\* ---------------------------------------------- generate command (main)
\* each file is <<>> while it does not exist and a 1-tuple of its content
\* once written; output_dir is the directory the split command writes to
EmptyDisk == [metadata_json |-> <<>>, png |-> <<>>, labels_txt |-> <<>>, output_dir |-> <<>>]

\* the else branch of process_path (lines 142-165) for one file. decode is
\* what decoding the file does: "ok", "verify_fails" (Image.open or verify
\* raises) or "convert_fails" (the reopen or the conversion raises).
process_path(name, decode, lbls, imgs) ==
    IF decode = "verify_fails"
    THEN [labels |-> lbls, images |-> imgs, ret |-> FALSE]
    ELSE IF decode = "convert_fails"
    THEN [labels |-> Append(lbls, processed_name(name)), images |-> imgs, ret |-> FALSE]
    ELSE [labels |-> Append(lbls, processed_name(name)),
          images |-> Append(imgs, Sprite(Len(imgs) + 1, 1, 1)),
          ret |-> TRUE]

\* the descriptor as main dumps it: the metadata of stitch_images with the
\* labels list added
descriptor(metadata, lbls) ==
    [sprite_size |-> metadata.sprite_size,
     sprite_padding |-> metadata.sprite_padding,
     grid_size |-> metadata.grid_size,
     sheet_size |-> metadata.sheet_size,
     labels |-> lbls]

\* the lines main writes to the label file
label_lines(lbls) == [i \in 1 .. Len(lbls) |-> IF lbls[i] = None THEN <<>> ELSE lbls[i]]

\* ------------------------------------------------------------ behaviours
Dims == 1 .. MaxDim
Grids == (1 .. MaxGrid) \X (1 .. MaxGrid)
Pads == (0 .. MaxPad) \X (0 .. MaxPad)

NoResult == [err |-> "pending", sheet |-> NoImage, metadata |-> NoMetadata]

\* the file names the input directories hold
FileNames ==
    { <<"1", "_", "a", ".", "p", "n", "g">>,
      <<"b", ".", "p", "n", "g">>,
      <<"7", ".", "p", "n", "g">> }

Decodes == {"ok", "verify_fails", "convert_fails"}

InitGeometry ==
    /\ images = <<>>
    /\ grid_size = <<>>
    /\ padding = <<>>
    /\ stitched = NoResult
    /\ image = NoImage
    /\ size = <<>>
    /\ sprite_padding = <<>>
    /\ split_images = <<>>

InitGenerate ==
    /\ labels = <<>>
    /\ depth = 0
    /\ inputs_done = 0
    /\ sources = <<>>
    /\ decode_failed = 0

NoArgs ==
    [sprite_size |-> NoneT, sprite_padding |-> NoneT, label_path |-> "None",
     file_name_separator |-> <<" ">>, clear_directory |-> FALSE,
     ignore_metadata |-> FALSE, disinclude_blank_sprites |-> FALSE, labels |-> <<>>]

NoFiles == [input_exists |-> FALSE, label_file |-> <<>>, metadata |-> <<>>]

InitSplitVars ==
    /\ argv = NoArgs
    /\ args = NoArgs
    /\ files = NoFiles
    /\ error_message = "pending"
    /\ is_blank = "pending"

\* the sizes and paddings given on the command line, and those a descriptor
\* next to the sheet holds
ArgSizes == {<<d, 1>> : d \in Dims}
ArgPads == {<<p, 0>> : p \in 0 .. MaxPad}
MetaSizes == {<<1, d>> : d \in Dims}
MetaPads == {<<0, p>> : p \in 0 .. MaxPad}

\* the label lists a descriptor holds (a null entry reads as None)
MetaLabels == { <<>>, << <<"a">> >>, <<None, <<"b">> >> }

\* the descriptors found next to the sheet: <<>> when there is none
Metadatas ==
    {<<>>} \cup
    { <<[sprite_size |-> [width |-> sz[1], height |-> sz[2]],
         sprite_padding |-> [horizontal |-> pd[1], vertical |-> pd[2]],
         labels |-> l]>> :
      sz \in MetaSizes, pd \in MetaPads, l \in {<<>>} \cup {<<m>> : m \in MetaLabels} }

\* the label files: <<>> when the path does not exist
LabelFiles ==
    {<<>>} \cup
    { <<lines>> : lines \in { <<>>, << <<"c">> >>, << <<" ", "c", " ">>, <<>> >> } }

\* a test calls stitch_images on loaded sprites
InitStitch ==
    /\ op = "stitch"
    /\ pc = "stitch_call"
    /\ \E n \in 0 .. MaxSprites :
       \E ws \in [1 .. n -> Dims], hs \in [1 .. n -> Dims] :
          images = [i \in 1 .. n |-> Sprite(i, ws[i], hs[i])]
    /\ grid_size \in Grids
    /\ padding \in Pads
    /\ stitched = NoResult
    /\ image = NoImage
    /\ size = <<>>
    /\ sprite_padding = <<>>
    /\ split_images = <<>>
    /\ InitGenerate
    /\ InitSplitVars
    /\ disk = EmptyDisk
    /\ log = <<>>

\* a test calls split_sprite_sheet on a loaded sheet
InitSplit ==
    /\ op = "split"
    /\ pc = "split_call"
    /\ images = <<>>
    /\ grid_size = <<>>
    /\ padding = <<>>
    /\ stitched = NoResult
    /\ \E w \in 1 .. MaxSheet, h \in 1 .. MaxSheet : image = Sprite(0, w, h)
    /\ size \in Dims \X Dims
    /\ sprite_padding \in Pads
    /\ split_images = <<>>
    /\ InitGenerate
    /\ InitSplitVars
    /\ disk = EmptyDisk
    /\ log = <<>>

\* the generate command starts: args.grid_size and args.sprite_padding are
\* parsed, nothing is read or written yet
InitGenerateCommand ==
    /\ op = "generate"
    /\ pc = "main:command_validation"
    /\ images = <<>>
    /\ grid_size \in Grids
    /\ padding \in Pads
    /\ stitched = NoResult
    /\ image = NoImage
    /\ size = <<>>
    /\ sprite_padding = <<>>
    /\ split_images = <<>>
    /\ InitGenerate
    /\ InitSplitVars
    /\ disk = EmptyDisk
    /\ log = <<>>

\* process_arguments is called on a parsed namespace
InitProcessArguments ==
    /\ op = "process_arguments"
    /\ pc = "process_arguments_call"
    /\ InitGeometry
    /\ InitGenerate
    /\ \E ss \in {NoneT} \cup ArgSizes, sp \in {NoneT} \cup ArgPads,
          lp \in {"None", "labels.txt"}, im \in BOOLEAN :
          argv = [NoArgs EXCEPT !.sprite_size = ss, !.sprite_padding = sp,
                                !.label_path = lp, !.ignore_metadata = im]
    /\ args = argv
    /\ \E ie \in BOOLEAN, lf \in LabelFiles, md \in Metadatas :
          files = [input_exists |-> ie, label_file |-> lf, metadata |-> md]
    /\ error_message = "pending"
    /\ is_blank = "pending"
    /\ disk = EmptyDisk
    /\ log = <<>>

\* a sheet whose pixels right of the first column are fully transparent
BlankRight(img) ==
    [img EXCEPT !.px = [p \in DOMAIN img.px |-> IF p[1] >= 1 THEN Transparent ELSE img.px[p]]]

\* the split command starts on a command line and a file system; the sheet
\* at args.input is image
InitSplitCommand ==
    /\ op = "split_command"
    /\ pc = "main:get_args"
    /\ images = <<>>
    /\ grid_size = <<>>
    /\ padding = <<>>
    /\ stitched = NoResult
    /\ \E w \in Dims, h \in Dims : image \in {Sprite(0, w, h), BlankRight(Sprite(0, w, h))}
    /\ size = <<>>
    /\ sprite_padding = <<>>
    /\ split_images = <<>>
    /\ InitGenerate
    /\ \E ss \in {NoneT, <<1, 1>>}, lp \in {"None", "labels.txt"},
          sep \in {<<" ">>, <<>>}, db \in BOOLEAN :
          argv = [NoArgs EXCEPT !.sprite_size = ss, !.label_path = lp,
                                !.file_name_separator = sep,
                                !.disinclude_blank_sprites = db]
    /\ args = argv
    /\ \E lf \in {<<>>, << << <<"c">> >> >>}, md \in {<<>>} :
          files = [input_exists |-> TRUE, label_file |-> lf, metadata |-> md]
    /\ error_message = "pending"
    /\ is_blank = "pending"
    /\ disk \in {EmptyDisk, [EmptyDisk EXCEPT !.output_dir = <<{}>>]}
    /\ log = <<>>

\* the pixels of the images handed to image_is_blank: colour and alpha vary
\* independently
Samples == { [c |-> 0, a |-> 0], [c |-> 9, a |-> 0], [c |-> 0, a |-> 1], [c |-> 9, a |-> 255] }

\* a test calls image_is_blank on a loaded RGBA image
InitBlankCheck ==
    /\ op = "image_is_blank"
    /\ pc = "image_is_blank_call"
    /\ images = <<>>
    /\ grid_size = <<>>
    /\ padding = <<>>
    /\ stitched = NoResult
    /\ \E w \in 1 .. MaxPixels, h \in 1 .. MaxPixels :
          /\ w * h <= MaxPixels
          /\ \E px \in [Coords(w, h) -> Samples] : image = [size |-> <<w, h>>, px |-> px]
    /\ size = <<>>
    /\ sprite_padding = <<>>
    /\ split_images = <<>>
    /\ InitGenerate
    /\ InitSplitVars
    /\ disk = EmptyDisk
    /\ log = <<>>

\* the characters of the file names whose label is derived
NameChars == {"1", "2", "_", "-", " ", "a", "."}

\* the file names of up to MaxName characters
Names == UNION { [1 .. n -> NameChars] : n \in 1 .. MaxName }

\* process_path is about to be called on a file; no label is derived yet
InitProcessPath ==
    /\ op = "process_path"
    /\ pc = "process_path_call"
    /\ InitGeometry
    /\ InitGenerate
    /\ InitSplitVars
    /\ disk = EmptyDisk
    /\ log = <<>>

\* the label lists and the separators the loop that saves the sprites gets
SaveLabels == { <<>>, << <<"1">> >>, << <<"a">> >>, << None, <<"a">> >> }

Separators == { <<" ">>, <<>>, <<"1">> }

\* main is at line 204: the arguments are resolved, the output directory
\* exists and is empty, split_sprite_sheet has returned the sprites
InitSaveLoop ==
    /\ op = "save_loop"
    /\ pc = "main:save_loop"
    /\ images = <<>>
    /\ grid_size = <<>>
    /\ padding = <<>>
    /\ stitched = NoResult
    /\ image = NoImage
    /\ size = <<>>
    /\ sprite_padding = <<>>
    /\ \E n \in 1 .. MaxSaved, blank \in {{}, {2}} :
          split_images = [k \in 1 .. n |->
                            IF k \in blank THEN NewImage(1, 1) ELSE Sprite(k, 1, 1)]
    /\ InitGenerate
    /\ \E l \in SaveLabels, sep \in Separators, db \in BOOLEAN :
          args = [NoArgs EXCEPT !.sprite_size = <<1, 1>>, !.sprite_padding = <<0, 0>>,
                               !.labels = l, !.file_name_separator = sep,
                               !.disinclude_blank_sprites = db]
    /\ argv = NoArgs
    /\ files = NoFiles
    /\ error_message = "None"
    /\ is_blank = "pending"
    /\ disk = [EmptyDisk EXCEPT !.output_dir = <<{}>>]
    /\ log = <<>>

\* the calls of the two library functions
InitGeometryCalls == InitStitch \/ InitSplit

\* the split command and the call of process_arguments
InitSplitter == InitProcessArguments \/ InitSplitCommand

Init ==
    \/ InitGeometryCalls
    \/ InitGenerateCommand
    \/ InitSplitter
    \/ InitBlankCheck
    \/ InitProcessPath
    \/ InitSaveLoop

\* the call of stitch_images; its sheet and descriptor become the arguments
\* of the split that follows
StitchCall ==
    /\ pc = "stitch_call"
    /\ stitched' = stitch_images(images, grid_size, padding)
    /\ IF stitched'.err = "none"
       THEN /\ pc' = "split_call"
            /\ image' = stitched'.sheet
            /\ size' = <<stitched'.metadata.sprite_size.width,
                         stitched'.metadata.sprite_size.height>>
            /\ sprite_padding' = <<stitched'.metadata.sprite_padding.horizontal,
                                   stitched'.metadata.sprite_padding.vertical>>
       ELSE /\ pc' = "raised"
            /\ UNCHANGED <<image, size, sprite_padding>>
    /\ UNCHANGED <<op, images, grid_size, padding, split_images, generate_vars, split_vars,
                   disk, log>>

\* the call of split_sprite_sheet
SplitCall ==
    /\ pc = "split_call"
    /\ split_images' = split_sprite_sheet(image, size, sprite_padding)
    /\ pc' = "split_done"
    /\ UNCHANGED <<op, images, grid_size, padding, stitched, image, size, sprite_padding,
                   generate_vars, split_vars, disk, log>>

\* generate, lines 129-133: command_validation finds every input path, or
\* names the missing ones and main returns
command_validation ==
    /\ pc = "main:command_validation"
    /\ \E all_exist \in BOOLEAN :
        IF all_exist
        THEN pc' = "main:process_path" /\ log' = log
        ELSE pc' = "main:returned" /\ log' = Append(log, "Error: These files do not exist")
    /\ UNCHANGED <<op, geometry_vars, generate_vars, split_vars, disk>>

\* a new path may be looked at: the run stays within its bounds, and at the
\* top level args.input has a path left
MayDiscover ==
    /\ pc = "main:process_path"
    /\ depth = 0 => inputs_done < MaxInputs

\* generate, lines 142-165 and 167-169: process_path on a file, found at the
\* top level (depth 0) or listed in a directory
ProcessFile ==
    /\ MayDiscover
    /\ Len(images) + decode_failed < MaxFiles
    /\ \E name \in FileNames, decode \in Decodes :
        LET r == process_path(name, decode, labels, images)
        IN  /\ labels' = r.labels
            /\ images' = r.images
            /\ sources' = IF decode = "ok" THEN Append(sources, name) ELSE sources
            /\ decode_failed' = IF decode = "ok" THEN decode_failed ELSE decode_failed + 1
            /\ log' = IF decode = "ok" THEN log ELSE Append(log, "failed to load.")
            /\ IF depth = 0
               THEN \* line 168: main looks at what process_path returned
                    IF r.ret
                    THEN pc' = pc /\ inputs_done' = inputs_done + 1
                    ELSE pc' = "main:returned" /\ inputs_done' = inputs_done
               ELSE \* line 141: the loop over the directory drops it
                    pc' = pc /\ inputs_done' = inputs_done
    /\ UNCHANGED <<op, grid_size, padding, stitched, image, size, sprite_padding,
                   split_images, depth, split_vars, disk>>

\* generate, lines 139-141: process_path enters a directory
EnterDirectory ==
    /\ MayDiscover
    /\ depth < MaxDepth
    /\ depth' = depth + 1
    /\ UNCHANGED <<op, pc, geometry_vars, labels, inputs_done, sources, decode_failed,
                   split_vars, disk, log>>

\* generate, lines 140-141 and 165: the listing of the directory is
\* exhausted and process_path returns True
LeaveDirectory ==
    /\ pc = "main:process_path"
    /\ depth > 0
    /\ depth' = depth - 1
    /\ inputs_done' = IF depth = 1 THEN inputs_done + 1 ELSE inputs_done
    /\ UNCHANGED <<op, pc, geometry_vars, labels, sources, decode_failed, split_vars,
                   disk, log>>

\* mutant: the label file is written before stitch_images is called
GenerateStitch_labels_first ==
    /\ pc = "main:process_path"
    /\ depth = 0
    /\ inputs_done >= 1
    /\ disk' = [disk EXCEPT !.labels_txt = <<label_lines(labels)>>]
    /\ stitched' = stitch_images(images, grid_size, padding)
    /\ pc' = IF stitched'.err = "none" THEN "main:dump_metadata" ELSE "main:raised"
    /\ UNCHANGED <<op, images, grid_size, padding, image, size, sprite_padding,
                   split_images, generate_vars, split_vars, log>>

\* generate, lines 167-175: every path of args.input is processed and main
\* calls stitch_images; its ValueError is not caught
GenerateStitch ==
    /\ pc = "main:process_path"
    /\ depth = 0
    /\ inputs_done >= 1
    /\ stitched' = stitch_images(images, grid_size, padding)
    /\ pc' = IF stitched'.err = "none" THEN "main:dump_metadata" ELSE "main:raised"
    /\ UNCHANGED <<op, images, grid_size, padding, image, size, sprite_padding,
                   split_images, generate_vars, split_vars, disk, log>>

\* generate, lines 180-186: the descriptor is written, or writing it fails
\* and main goes on
DumpMetadata ==
    /\ pc = "main:dump_metadata"
    /\ \E written \in BOOLEAN :
        IF written
        THEN /\ disk' = [disk EXCEPT !.metadata_json = <<descriptor(stitched.metadata, labels)>>]
             /\ log' = log
        ELSE /\ disk' = disk
             /\ log' = Append(log, "failed to save sprite data")
    /\ pc' = "main:save_sheet"
    /\ UNCHANGED <<op, geometry_vars, generate_vars, split_vars>>

\* generate, line 188
SaveSheet ==
    /\ pc = "main:save_sheet"
    /\ disk' = [disk EXCEPT !.png = <<stitched.sheet>>]
    /\ pc' = "main:write_labels"
    /\ UNCHANGED <<op, geometry_vars, generate_vars, split_vars, log>>

\* generate, lines 194-200
WriteLabels ==
    /\ pc = "main:write_labels"
    /\ disk' = [disk EXCEPT !.labels_txt = <<label_lines(labels)>>]
    /\ log' = Append(log, "done.")
    /\ pc' = "main:returned"
    /\ UNCHANGED <<op, geometry_vars, generate_vars, split_vars>>

\* the call of process_arguments
ProcessArgumentsCall ==
    /\ pc = "process_arguments_call"
    /\ LET r == process_arguments(args, files)
       IN  /\ args' = r.args
           /\ error_message' = r.error
    /\ pc' = "process_arguments_done"
    /\ UNCHANGED <<op, geometry_vars, generate_vars, argv, files, is_blank, disk, log>>

\* split, line 171: main calls get_args, which raises; nothing catches it
SplitGetArgs ==
    /\ pc = "main:get_args"
    /\ get_args.raised = "TypeError"
    /\ pc' = "main:raised"
    /\ log' = Append(log, "TypeError")
    /\ UNCHANGED <<op, geometry_vars, generate_vars, split_vars, disk>>

\* the call of image_is_blank
ImageIsBlankCall ==
    /\ pc = "image_is_blank_call"
    /\ is_blank' = image_is_blank(image)
    /\ pc' = "image_is_blank_done"
    /\ UNCHANGED <<op, geometry_vars, generate_vars, argv, args, files, error_message,
                   disk, log>>

\* generate, lines 142-165: process_path on a file that decodes
ProcessPathCall ==
    /\ pc = "process_path_call"
    /\ \E name \in Names :
        LET r == process_path(name, "ok", labels, images)
        IN  /\ labels' = r.labels
            /\ images' = r.images
            /\ sources' = Append(sources, name)
    /\ pc' = "process_path_done"
    /\ UNCHANGED <<op, grid_size, padding, stitched, image, size, sprite_padding,
                   split_images, depth, inputs_done, decode_failed, split_vars, disk, log>>

\* split, lines 204-231: the warning, the loop that saves the sprites, and
\* the closing line
SaveLoop ==
    /\ pc = "main:save_loop"
    /\ disk' = [disk EXCEPT !.output_dir =
                    <<save_loop(disk.output_dir[1], split_images, 0, args.labels,
                                args.file_name_separator, args.disinclude_blank_sprites)>>]
    /\ log' = (IF Len(args.labels) # Len(split_images)
               THEN Append(log, "[ WARNING ]  label count does not match sprite count.")
               ELSE log) \o <<"done.">>
    /\ pc' = "main:returned"
    /\ UNCHANGED <<op, geometry_vars, generate_vars, split_vars>>

NextGeometryCalls == StitchCall \/ SplitCall

NextGenerateCommand ==
    \/ command_validation
    \/ ProcessFile
    \/ EnterDirectory
    \/ LeaveDirectory
    \/ GenerateStitch
    \/ DumpMetadata
    \/ SaveSheet
    \/ WriteLabels

NextSplitter == SplitGetArgs \/ ProcessArgumentsCall

Next ==
    \/ NextGeometryCalls
    \/ NextGenerateCommand
    \/ NextSplitter
    \/ ImageIsBlankCall
    \/ ProcessPathCall
    \/ SaveLoop

\* every entry point
Spec == Init /\ [][Next]_vars

\* stitch_images and split_sprite_sheet called on loaded images
SpecGeometry == InitGeometryCalls /\ [][NextGeometryCalls]_vars

\* the generate command
SpecGenerate == InitGenerateCommand /\ [][NextGenerateCommand]_vars

\* the split command and process_arguments
SpecSplitter == InitSplitter /\ [][NextSplitter]_vars

\* the two commands, and process_arguments
SpecCommands ==
    (InitGenerateCommand \/ InitSplitter) /\ [][NextGenerateCommand \/ NextSplitter]_vars

\* image_is_blank called on loaded images
SpecBlank == InitBlankCheck /\ [][ImageIsBlankCall]_vars

\* the label of one file name
SpecLabel == InitProcessPath /\ [][ProcessPathCall]_vars

\* the loop of the split command that saves the sprites
SpecSave == InitSaveLoop /\ [][SaveLoop]_vars

\* ---------------------------------------------------------------- claims
SameSize(imgs) == \A i, j \in 1 .. Len(imgs) : imgs[i].size = imgs[j].size

\* the call of stitch_images of this behaviour returned a sheet
StitchReturned == op = "stitch" /\ stitched.err = "none"

\* C1: round trip. For a non-empty list S of sprites of one size, a grid with
\* room for them and any padding, splitting the stitched sheet with the
\* descriptor's sprite_size and sprite_padding gives back the sprites of S,
\* pixel for pixel and in the order of S (stated on the len(S) leading
\* elements of the result: the cells behind them hold no sprite).
C1_RoundTrip ==
    (StitchReturned /\ pc = "split_done" /\ SameSize(images)) =>
        /\ Len(split_images) >= Len(images)
        /\ \A i \in 1 .. Len(images) : split_images[i] = images[i]

\* C2: the stitched sheet is cols*W + (cols-1)*h wide and rows*H + (rows-1)*v
\* high, W and H the largest sprite width and height, and the descriptor's
\* sheet_size records these two values.
C2_SheetSize ==
    StitchReturned =>
        LET W == Max({images[i].size[1] : i \in 1 .. Len(images)})
            H == Max({images[i].size[2] : i \in 1 .. Len(images)})
            w == grid_size[2] * W + (grid_size[2] - 1) * padding[1]
            h == grid_size[1] * H + (grid_size[1] - 1) * padding[2]
        IN  /\ stitched.sheet.size = <<w, h>>
            /\ DOMAIN stitched.sheet.px = Coords(w, h)
            /\ stitched.metadata.sheet_size = [width |-> w, height |-> h]

\* C2 witness: a sheet of several columns in one row with both paddings,
\* stitched from sprites of different sizes
C2_Witness ==
    /\ StitchReturned
    /\ grid_size[2] > 1 /\ grid_size[1] # grid_size[2]
    /\ padding[1] > 0 /\ padding[2] > 0
    /\ ~SameSize(images)

\* the number of whole cells that fit across the sheet's width
CellsAcross(img, sz, pad) ==
    IF img.size[1] < sz[1] THEN 0 ELSE ((img.size[1] - sz[1]) \div (sz[1] + pad[1])) + 1

\* C3: the k-th sprite returned by split_sprite_sheet (k from 0) is the crop
\* of the rectangle at left = (k % cols) * (spriteWidth + paddingH),
\* top = (k // cols) * (spriteHeight + paddingV), for sheets of any shape.
C3_RowMajorCrop ==
    pc = "split_done" =>
        \A k \in 0 .. Len(split_images) - 1 :
            LET cols == CellsAcross(image, size, sprite_padding)
                left == (k % cols) * (size[1] + sprite_padding[1])
                top == (k \div cols) * (size[2] + sprite_padding[2])
            IN  split_images[k + 1] = Crop(image, left, top, left + size[1], top + size[2])

\* C4: a sheet whose dimensions follow the sheet-size formulas for a grid
\* (rows, cols), the sprite size and the padding splits into exactly
\* rows*cols sprites, each of the requested size.
C4_CountAndSize ==
    pc = "split_done" =>
        \A rows \in 1 .. image.size[2], cols \in 1 .. image.size[1] :
            (/\ image.size[1] = cols * size[1] + (cols - 1) * sprite_padding[1]
             /\ image.size[2] = rows * size[2] + (rows - 1) * sprite_padding[2])
            => /\ Len(split_images) = rows * cols
               /\ \A k \in 1 .. Len(split_images) :
                    /\ split_images[k].size = size
                    /\ DOMAIN split_images[k].px = Coords(size[1], size[2])

\* C4 witness: a padded sheet of 2 rows and 3 columns has been split
C4_Witness ==
    /\ pc = "split_done"
    /\ sprite_padding[1] > 0 /\ sprite_padding[2] > 0
    /\ image.size[1] = 3 * size[1] + 2 * sprite_padding[1]
    /\ image.size[2] = 2 * size[2] + sprite_padding[2]
    /\ Len(split_images) = 6

NoOutputFile ==
    /\ disk.metadata_json = <<>> /\ disk.png = <<>> /\ disk.labels_txt = <<>>
    /\ disk.output_dir \in {<<>>, <<{}>>}

\* C5: with more sprites than rows*cols cells stitch_images fails with the
\* capacity error and returns neither sheet nor descriptor, and the generate
\* command that called it writes no sheet, no descriptor and no label file.
C5_CapacityError ==
    (/\ op \in {"stitch", "generate"}
     /\ stitched.err # "pending"
     /\ Len(images) > grid_size[1] * grid_size[2])
    => /\ stitched = [err |-> "ValueError:capacity", sheet |-> NoImage, metadata |-> NoMetadata]
       /\ pc \in {"raised", "main:raised"}
       /\ NoOutputFile

\* C5 witness: the generate command discovered more sprites than the grid
\* holds and its call of stitch_images has raised
C5_Witness ==
    /\ op = "generate"
    /\ pc = "main:raised"
    /\ Len(images) > grid_size[1] * grid_size[2]

SheetTooSmall == image.size[1] < size[1] \/ image.size[2] < size[2]

ProcessArgumentsDone == op = "process_arguments" /\ pc = "process_arguments_done"

\* a descriptor lies next to the sheet and is not ignored
MetadataUsed == ~argv.ignore_metadata /\ files.metadata # <<>>

ExplicitWins ==
    /\ argv.sprite_size # NoneT => args.sprite_size = argv.sprite_size
    /\ argv.sprite_padding # NoneT => args.sprite_padding = argv.sprite_padding

DescriptorOnlyFillsGaps ==
    /\ args.sprite_size # argv.sprite_size =>
        /\ argv.sprite_size = NoneT
        /\ MetadataUsed
        /\ args.sprite_size = <<files.metadata[1].sprite_size.width,
                                files.metadata[1].sprite_size.height>>
    /\ (args.sprite_padding # argv.sprite_padding /\ args.sprite_padding # <<0, 0>>) =>
        /\ argv.sprite_padding = NoneT
        /\ MetadataUsed
        /\ args.sprite_padding = <<files.metadata[1].sprite_padding.horizontal,
                                   files.metadata[1].sprite_padding.vertical>>

\* C7: an explicit sprite size or padding is always the effective value, the
\* descriptor's value is used only for a parameter not given explicitly, and
\* with a sprite size from neither the operation fails with the
\* missing-sprite-size error.
C7_Resolution ==
    ProcessArgumentsDone =>
        /\ ExplicitWins
        /\ DescriptorOnlyFillsGaps
        /\ (argv.sprite_size = NoneT /\ ~MetadataUsed) =>
                error_message = "Error: sprite size was not provided."

\* C7 as amended: as C7, but with a sprite size from neither source the
\* operation fails with the missing-sprite-size error unless a label path
\* was given that does not exist: then it fails with the label-file error,
\* which process_arguments returns first.
C7_ResolutionAmended ==
    ProcessArgumentsDone =>
        /\ ExplicitWins
        /\ DescriptorOnlyFillsGaps
        /\ (argv.sprite_size = NoneT /\ ~MetadataUsed) =>
                error_message =
                    IF argv.label_path # "None" /\ files.label_file = <<>>
                    THEN "Error: label file does not exist!"
                    ELSE "Error: sprite size was not provided."

\* C7 witness: an explicit padding met a descriptor with another padding,
\* and the sprite size came from the descriptor
C7_Witness ==
    /\ ProcessArgumentsDone
    /\ error_message = "None"
    /\ argv.sprite_size = NoneT
    /\ args.sprite_size # NoneT
    /\ argv.sprite_padding # NoneT
    /\ <<files.metadata[1].sprite_padding.horizontal,
         files.metadata[1].sprite_padding.vertical>> # argv.sprite_padding

\* the sprites and labels the split command of this behaviour works on
CommandResolved == process_arguments(argv, files)

CommandSprites ==
    split_sprite_sheet(image, CommandResolved.args.sprite_size,
                       CommandResolved.args.sprite_padding)

\* the name the claim gives the sprite at extraction index i (0-based)
NamedByIndex(i) ==
    LET lbls == CommandResolved.args.labels
        has_label == i < Len(lbls) /\ lbls[i + 1] # None /\ lbls[i + 1] # <<>>
    IN  IF has_label
        THEN str(i + 1) \o argv.file_name_separator \o lbls[i + 1] \o <<".", "p", "n", "g">>
        ELSE str(i + 1) \o <<".", "p", "n", "g">>

\* C8: in the split command every sprite that is not skipped as blank is
\* written under the name made of its extraction index i+1 and labels[i]
\* (the number alone when it has no label or an empty one), whatever was
\* skipped before it and whether or not the label count matches the sprite
\* count; nothing else is written.
C8_NamedByExtractionIndex ==
    (/\ op = "split_command"
     /\ pc \in {"main:returned", "main:raised"}
     /\ CommandResolved.error = "None"
     /\ image.size[1] >= CommandResolved.args.sprite_size[1]
     /\ image.size[2] >= CommandResolved.args.sprite_size[2])
    => /\ disk.output_dir # <<>>
       /\ disk.output_dir[1] =
            { [name |-> NamedByIndex(i), content |-> CommandSprites[i + 1]] :
                i \in { j \in 0 .. Len(CommandSprites) - 1 :
                          ~(argv.disinclude_blank_sprites
                            /\ image_is_blank(CommandSprites[j + 1])) } }

\* C9: when a discovered file fails to decode, at the top level or in a
\* directory at any depth, the generate command aborts: no sheet, no
\* descriptor and no label file is written.
C9_DecodeFailureAborts ==
    (op = "generate" /\ decode_failed > 0) => NoOutputFile

\* C10: whenever the generate command has written a descriptor, its labels
\* list has as many entries as sprites were placed on the sheet, and
\* labels[i] is the label derived from the file name of the sprite at i.
C10_LabelsMatchSprites ==
    (op = "generate" /\ disk.metadata_json # <<>>) =>
        LET d == disk.metadata_json[1]
        IN  /\ Len(d.labels) = Len(images)
            /\ \A i \in 1 .. Len(images) : d.labels[i] = processed_name(sources[i])

\* image_is_blank returned
BlankChecked == op = "image_is_blank" /\ pc = "image_is_blank_done"

\* the image with every colour replaced by one value, alpha kept
Recoloured(img, colour) ==
    [img EXCEPT !.px = [p \in DOMAIN img.px |-> [c |-> colour, a |-> img.px[p].a]]]

\* C11: image_is_blank returns true exactly when every pixel of the image has
\* alpha 0: one pixel with another alpha, wherever it lies, makes it false,
\* and the result is the same whatever the colours are.
C11_BlankIffAllAlphaZero ==
    BlankChecked =>
        /\ is_blank \in BOOLEAN
        /\ is_blank <=> (\A p \in Coords(image.size[1], image.size[2]) : image.px[p].a = 0)
        /\ (\E p \in Coords(image.size[1], image.size[2]) : image.px[p].a # 0) => ~is_blank
        /\ \A colour \in {0, 9} : image_is_blank(Recoloured(image, colour)) = is_blank

\* C11 witness: one pixel that is not the first has a non-zero alpha, the
\* others are transparent but coloured, and the answer is false
C11_Witness ==
    /\ BlankChecked
    /\ is_blank = FALSE
    /\ image.size = <<2, 2>>
    /\ image.px[<<1, 1>>].a = 1
    /\ \A p \in DOMAIN image.px : p # <<1, 1>> => image.px[p] = [c |-> 9, a |-> 0]
\* process_path derived the label of a file name
LabelDerived == op = "process_path" /\ pc = "process_path_done"

\* rest is name without its longest leading run of one or more digits and
\* the longest run of separators that follows
StrippedTo(name, rest) ==
    \E i \in 1 .. Len(name) : \E j \in i .. Len(name) :
        /\ \A k \in 1 .. i : name[k] \in Digit
        /\ i < Len(name) => name[i + 1] \notin Digit
        /\ \A k \in i + 1 .. j : name[k] \in SepChar
        /\ j < Len(name) => name[j + 1] \notin SepChar
        /\ rest = SubSeq(name, j + 1, Len(name))

\* C12: the label derived from a source name (the file name without its
\* extension) is the name without its longest leading run of one or more
\* digits and the run of blanks, '_' and '-' that follows; a name that does
\* not start with a digit is unchanged; an empty remainder gives the absent
\* label, so a label is never the empty string.
C12_LabelDerivation ==
    LabelDerived =>
        LET name == stem(sources[1])
            label == labels[1]
        IN  /\ Len(labels) = 1
            /\ label # <<>>
            /\ name[1] \notin Digit => label = name
            /\ name[1] \in Digit =>
                  \E rest \in {SubSeq(name, k, Len(name)) : k \in 2 .. Len(name) + 1} :
                      /\ StrippedTo(name, rest)
                      /\ label = IF rest = <<>> THEN None ELSE rest

\* C12 witness: a name of two digits, a separator and a letter gives the
\* letter
C12_Witness ==
    /\ LabelDerived
    /\ sources[1] = <<"1", "2", "-", "a">>
    /\ labels[1] = <<"a">>
\* the generate command ended on a missing input path
MissingInputError ==
    /\ op = "generate"
    /\ pc = "main:returned"
    /\ Len(log) > 0
    /\ log[Len(log)] = "Error: These files do not exist"

\* the generate command ended on more sprites than grid cells
CapacityError ==
    op = "generate" /\ pc = "main:raised" /\ stitched.err = "ValueError:capacity"

\* process_arguments found no sprite size, or no sheet at the input path
ArgumentsError ==
    /\ op = "process_arguments"
    /\ error_message \in {"Error: sprite size was not provided.",
                          "Error: sprite sheet file does not exist!"}

\* C13: a run that ends on a structural error (missing input path, more
\* sprites than grid cells, no sprite size, missing sheet) has changed nothing
\* on disk: no file is written and the output directory is neither created
\* nor cleared. The split command changes nothing on disk in any step.
C13_NoChangeOnStructuralError ==
    /\ [](MissingInputError \/ CapacityError \/ ArgumentsError => disk = EmptyDisk)
    /\ [][op = "split_command" => disk' = disk]_vars

\* C13 witness: the generate command collected more sprites than the grid
\* holds, stitch_images raised, and nothing is on disk
C13_Witness ==
    /\ CapacityError
    /\ Len(images) > grid_size[1] * grid_size[2]
    /\ disk = EmptyDisk
\* C14: in the descriptor file the generate command wrote, the labels list
\* has one entry per sprite, and the entry of every sprite whose derived
\* label is absent is the empty string.
C14_AbsentLabelIsEmptyString ==
    op = "generate" /\ disk.metadata_json # <<>> =>
        LET written == disk.metadata_json[1].labels
        IN  /\ Len(written) = Len(sources)
            /\ \A i \in 1 .. Len(sources) :
                  processed_name(sources[i]) = None => written[i] = <<>>
\* C15: every rectangle split_sprite_sheet cropped lies within the sheet:
\* left >= 0, top >= 0, left + spriteWidth <= sheet width and
\* top + spriteHeight <= sheet height.
C15_CropsWithinSheet ==
    pc = "split_done" =>
        LET positions == split_positions(image, size, sprite_padding)
        IN  /\ Len(positions) = Len(split_images)
            /\ \A k \in 1 .. Len(positions) :
                  LET left == positions[k][1]
                      top == positions[k][2]
                  IN  /\ left >= 0
                      /\ top >= 0
                      /\ left + size[1] <= image.size[1]
                      /\ top + size[2] <= image.size[2]
\* the top-left corners at which the sprites are to appear in the sheet, by
\* list index (from 0)
CellCorners ==
    LET cols == grid_size[2]
        W == Max({images[k].size[1] : k \in 1 .. Len(images)})
        H == Max({images[k].size[2] : k \in 1 .. Len(images)})
    IN  [i \in 0 .. Len(images) - 1 |->
            <<(i % cols) * (W + padding[1]), (i \div cols) * (H + padding[2])>>]

\* C16: in the sheet stitch_images returned, the pixels of the sprite at list
\* index i appear unchanged with their top-left corner at
\* x = (i % cols) * (W + paddingH), y = (i // cols) * (H + paddingV), W and H
\* the largest sprite width and height; every other pixel of the sheet has
\* alpha 0.
C16_PlacementAndTransparency ==
    StitchReturned =>
        LET corner == CellCorners
            sheet == stitched.sheet.px
        IN  /\ \A i \in DOMAIN corner :
                  \A p \in DOMAIN images[i + 1].px :
                      LET q == <<corner[i][1] + p[1], corner[i][2] + p[2]>>
                      IN  q \in DOMAIN sheet /\ sheet[q] = images[i + 1].px[p]
            /\ \A q \in DOMAIN sheet :
                  (\A i \in DOMAIN corner :
                      <<q[1] - corner[i][1], q[2] - corner[i][2]>> \notin DOMAIN images[i + 1].px)
                  => sheet[q].a = 0

\* C16 witness: two sprites of different sizes in a 2x2 grid with padding
\* both ways: the sheet has padding gaps, an unused part of a cell and two
\* cells without a sprite
C16_Witness ==
    /\ StitchReturned
    /\ Len(images) = 2
    /\ images[1].size = <<2, 2>> /\ images[2].size = <<1, 1>>
    /\ grid_size = <<2, 2>>
    /\ padding = <<1, 1>>
    /\ stitched.sheet.px[<<3, 0>>] = images[2].px[<<0, 0>>]
    /\ stitched.sheet.px[<<4, 1>>].a = 0
    /\ stitched.sheet.px[<<0, 3>>].a = 0
\* the extraction indices (from 0) of the sprites the loop saves
SavedIndices ==
    { i \in 0 .. Len(split_images) - 1 :
        ~(args.disinclude_blank_sprites /\ image_is_blank(split_images[i + 1])) }

====
